---- MODULE Spec2Model ----
(***************************************************************************)
(* slogcloud: a Logger facade that logs either to the console (StdLogger)  *)
(* or to AWS CloudWatch Logs (SlogLogger over CloudWatchLogHandler).       *)
(* The model follows src/slogcloud.go: GetLogger, NewCloudwatchClient (the *)
(* provisioning of log group and log stream), EmitLog and the Logger       *)
(* methods, against a small model of the CloudWatch Logs service.          *)
(***************************************************************************)
EXTENDS Integers, Sequences, FiniteSets, TLC

\* ---------------------------------------------------------------- bounds
MaxRuns == 2        \* GetLogger calls in one process
MaxLogCalls == 2    \* Debug/Info/Warn/Error calls after one GetLogger call
MaxClock == 1       \* the wall clock reads 0..MaxClock (seconds)

\* ------------------------------------------------------- program constants
PROD == "prod"
DEV == "dev"
maxRetries == 3

\* environment strings a caller may pass to GetLogger
Envs == {PROD, DEV, "staging"}

\* log group names; "app" is a substring of "app-logs"
GroupNames == {"app", "app-logs"}

\* DescribeLogGroups is called with LogGroupNamePattern: the service matches
\* the pattern as a substring of the group name.
Matches(pattern, name) ==
    \/ pattern = name
    \/ pattern = "app" /\ name = "app-logs"

\* ------------------------------------------------------------------ errors
\* An error value: the chain of messages added by fmt.Errorf("...: %w"), the
\* kind of the underlying service failure and the attempt that produced it.
NilErr == [msg |-> <<>>, kind |-> "nil", at |-> 0]

ServiceErr(kind, at) == [msg |-> <<>>, kind |-> kind, at |-> at]

\* fmt.Errorf("<m>: %w", e)
Wrap(m, e) == [e EXCEPT !.msg = <<m>> \o @]

\* errors.Unwrap
Unwrap(e) == [e EXCEPT !.msg = Tail(@)]

\* failure kinds of the remote service
TransientKinds == {"transient"}
PermanentKinds == {"permanent"}
FailKinds == TransientKinds \cup PermanentKinds

\* ------------------------------------------------------------ destinations
NoDest == [group |-> "", stream |-> <<>>]

\* a *CloudwatchClient: logGroup and logStream
Dest(g, s) == [group |-> g, stream |-> s]

\* a stream name without the UUID
StreamNameNoId(ts, id) == <<"slogcloud-stream", ts>>

\* fmt.Sprintf("slogcloud-stream-%s-%s", time.Now().Format(...), uuid.New())
StreamName(ts, id) == <<"slogcloud-stream", ts, id>>

VARIABLES
    groups,       \* remote: names of the log groups that exist
    streams,      \* remote: the log streams that exist, as destinations
    calls,        \* AWS SDK calls of the operation in progress or last done
    pc,           \* position of the program
    run,          \* number of GetLogger calls made
    nlog,         \* Debug/Info/Warn/Error calls since the last GetLogger call
    env,          \* GetLogger's env argument
    logGroup,     \* GetLogger's logGroup argument, "" once a Logger method runs
    exists,       \* NewCloudwatchClient: exists
    i,            \* NewCloudwatchClient: loop counter
    lastErr,      \* NewCloudwatchClient: lastErr
    logStream,    \* NewCloudwatchClient: logStream
    ret,          \* what GetLogger returned, until a Logger method runs
    loggers,      \* the Logger instances returned so far
    defaultSink,  \* slog's process-wide default handler (its client)
    lastCall,     \* the call of a Logger method in progress or last done
    exited,       \* exit status of the process, -1 while it runs
    clock,        \* wall clock
    uuids,        \* number of UUIDs generated
    record,       \* EmitLog: the slog.Record r it was called with
    logEntry,     \* EmitLog: the map logEntry
    sent,         \* EmitLog: the PutLogEventsInput it sent and the result
    emitErr,      \* EmitLog: the error it returned
    procs,        \* per process: where its NewCloudwatchClient stands
    names,        \* the stream names generated, with the process and its run
    thr,          \* per thread: where its EmitLog call stands
    issued,       \* the PutLogEvents calls in the order they were issued
    store         \* remote: the events of the stream in the order they arrived

\* the state of the facade and of the remote service
facadeVars == <<groups, streams, calls, pc, run, nlog, env, logGroup, exists, i,
                lastErr, logStream, ret, loggers, defaultSink, lastCall, exited,
                clock, uuids>>

\* the state of one EmitLog call
emitVars == <<record, logEntry, sent, emitErr>>

\* the provisioning runs of several processes
provVars == <<procs, names>>

\* the EmitLog calls of several threads
threadVars == <<thr, issued, store>>

vars == <<facadeVars, emitVars, provVars, threadVars>>

\* ------------------------------------------------------------ remote calls
\* a call of the AWS SDK: the operation, its target, the code that issued it,
\* its result as the caller read it ("unread" when the caller drops it) and,
\* for PutLogEvents, the length of LogEvents: EmitLog always sends one event
Call(op, g, s, by, result) ==
    [op |-> op, group |-> g, stream |-> s, by |-> by, result |-> result,
     events |-> IF op = "PutLogEvents" THEN 1 ELSE 0]

NoRet == [logger |-> 0, err |-> NilErr]
NoCall == [logger |-> 0, level |-> "", hasErr |-> FALSE, returned |-> "none",
           printed |-> FALSE, emitted |-> FALSE, target |-> NoDest, ok |-> FALSE,
           handlerErr |-> NilErr]

\* the longest attribute list of a record
MaxAttrs == 2

\* the values an attribute can hold (slog.Value.Any()): a number, a string,
\* a nil, an error with its text, and a channel, which encoding/json cannot
\* encode
Number(n) == [t |-> "number", v |-> n]
String(s) == [t |-> "string", v |-> s]
Null == [t |-> "nil", v |-> ""]
Error(text) == [t |-> "error", v |-> text]
Chan == [t |-> "chan", v |-> ""]
Values == {Number("42"), String("x"), Null, Error("boom"), Chan}

\* the keys a map can hold; a key with no entry holds Absent
Keys == {"message", "code", "cause"}
Absent == [t |-> "absent", v |-> ""]
EmptyEntry == [k \in Keys |-> Absent]
KeysOf(entry) == {k \in Keys : entry[k] # Absent}

\* slog.Attr
Attr(k, val) == [key |-> k, val |-> val]
Attrs == {Attr(k, val) : k \in Keys, val \in Values}

RECURSIVE SeqsUpTo(_, _)
SeqsUpTo(S, n) ==
    IF n = 0 THEN {<<>>}
    ELSE LET shorter == SeqsUpTo(S, n - 1)
         IN  shorter \cup {Append(q, x) : q \in shorter, x \in S}

\* slog.Record: the message and the attributes in the order they were added
Messages == {"hello"}
Records == {[message |-> m, attrs |-> as] :
               m \in Messages, as \in SeqsUpTo(Attrs, MaxAttrs)}

\* ------------------------------------------------------------- records
\* no record, no map, no input: before the first EmitLog call
NoRecord == [message |-> "", attrs |-> <<>>]
NoEntry == <<>>
NoInput == [dest |-> NoDest, events |-> 0]

\* a key the message has no member for holds NoJson
NoJson == [j |-> "none", v |-> ""]

\* the empty string as the message of an event
EmptyMessage == [kind |-> "empty", fields |-> [k \in Keys |-> NoJson]]

\* ------------------------------------------- processes and threads
\* the processes that provision against one group, and a process that has
\* not called NewCloudwatchClient
Procs == {1, 2}
NoRun == [pc |-> "idle", runs |-> 0, i |-> 0, logStream |-> <<>>]

\* the threads that log through one logger, each with one call of a Logger
\* method, and a thread that has not entered EmitLog
Threads == {1, 2, 3}
NoThread == [pc |-> "idle", record |-> NoRecord, entry |-> NoEntry,
             input |-> NoInput, call |-> 0, err |-> NilErr]

\* one process with one thread and no call of EmitLog from outside the
\* handler
Init ==
    /\ groups \in SUBSET GroupNames
    /\ streams = {}
    /\ calls = <<>>
    /\ pc = "idle"
    /\ run = 0
    /\ nlog = 0
    /\ env = ""
    /\ logGroup = ""
    /\ exists = FALSE
    /\ i = 0
    /\ lastErr = NilErr
    /\ logStream = <<>>
    /\ ret = NoRet
    /\ loggers = <<>>
    /\ defaultSink = NoDest
    /\ lastCall = NoCall
    /\ exited = -1
    /\ clock = 0
    /\ uuids = 0
    /\ record = NoRecord
    /\ logEntry = NoEntry
    /\ sent = NoInput
    /\ emitErr = NilErr
    /\ procs = <<>>
    /\ names = {}
    /\ thr = <<>>
    /\ issued = <<>>
    /\ store = <<>>


\* --------------------------------------------------- the remote service
\* DescribeLogGroups: the groups whose name matches the pattern
DescribeOutput(pattern) == {g \in groups : Matches(pattern, g)}

\* outcomes of DescribeLogGroups
DescribeOutcomes == {"ok"} \cup FailKinds

\* outcomes of CreateLogGroup: a group that exists cannot be created again
CreateGroupOutcomes(g) ==
    IF g \in groups THEN {"exists"} \cup FailKinds ELSE {"ok"} \cup FailKinds

\* outcomes of CreateLogStream: the group must exist, the stream must not
CreateStreamOutcomes(d) ==
    IF d.group \notin groups THEN {"notfound"} \cup FailKinds
    ELSE IF d \in streams THEN {"exists"} \cup FailKinds
    ELSE {"ok"} \cup FailKinds

\* outcomes of PutLogEvents: the stream must exist
PutOutcomes(d) ==
    IF d \in streams THEN {"ok"} \cup FailKinds ELSE {"notfound"} \cup FailKinds

\* --------------------------------------------------------- Logger values
NoLogger == [kind |-> "none", handler |-> NoDest]
StdLogger == [kind |-> "std", handler |-> NoDest]
SlogLogger(client) == [kind |-> "slog", handler |-> client]

\* ------------------------------------------------- log.Printf and slog
\* slog.SetDefault routes the log package through the installed handler:
\* once a CloudWatch handler is the default, log.Printf is an EmitLog call
\* on that handler's client, whose result log.Printf drops.
LogPrintf(cs) ==
    IF defaultSink = NoDest THEN cs
    ELSE Append(cs, Call("PutLogEvents", defaultSink.group, defaultSink.stream,
                         "log.Printf", "unread"))

\* the search of output.LogGroups without the comparison of the name: any
\* group that matches the pattern counts
ExistsInAnyMatch(output, g) == output # {}

\* ------------------------------------------------ NewCloudwatchClient
\* the loop over output.LogGroups: an exact match of the name
ExistsIn(output, g) == g \in output

\* the retry loop without its break: it goes on after a success
AfterAttemptNoBreak(ok, n) ==
    IF n < maxRetries THEN "createStream" ELSE "afterLoop"

\* the retry loop after one CreateLogStream attempt that made the n-th call:
\* break on success, otherwise go on while i < maxRetries
AfterAttempt(ok, n) ==
    IF ok THEN "afterLoop"
    ELSE IF n < maxRetries THEN "createStream" ELSE "afterLoop"

\* lastErr after an attempt: assigned on failure, left alone on success
LastErrAfter(last, ok, e) == IF ok THEN last ELSE e

\* NewCloudwatchClient without the test of lastErr: it returns the client
StreamResultUnchecked(last, g, s) == [client |-> Dest(g, s), err |-> NilErr]

\* what NewCloudwatchClient returns after the loop
StreamResult(last, g, s) ==
    IF last # NilErr
    THEN [client |-> NoDest,
          err |-> Wrap("failed to create CloudWatch log stream after 3 attempts", last)]
    ELSE [client |-> Dest(g, s), err |-> NilErr]

\* what NewCloudwatchClient returns when CreateLogGroup fails
GroupFailure(e) ==
    [client |-> NoDest, err |-> Wrap("failed to create log group", e)]

\* what NewCloudwatchClient returns when LoadDefaultConfig fails
ConfigFailure(e) ==
    [client |-> NoDest, err |-> Wrap("could not load AWS config", e)]

\* ------------------------------------------------------------ GetLogger
\* the environment test inverted
UsesCloudInverted(e) == e # PROD

\* the environment test of GetLogger
UsesCloud(e) == e = PROD

\* GetLogger in prod without the test of err: the client is used regardless
GetLoggerProdUnchecked(prov) ==
    [logger |-> SlogLogger(prov.client), sink |-> prov.client, err |-> NilErr]

\* GetLogger in prod with slog.SetDefault ahead of the test of err
GetLoggerProdEarlyDefault(prov) ==
    IF prov.err # NilErr
    THEN [logger |-> NoLogger, sink |-> prov.client,
          err |-> Wrap("failed to create CloudWatch client", prov.err)]
    ELSE [logger |-> SlogLogger(prov.client), sink |-> prov.client, err |-> NilErr]

\* GetLogger in prod, given what NewCloudwatchClient returned: the logger and
\* error it returns and the slog default it leaves installed
GetLoggerProd(prov) ==
    IF prov.err # NilErr
    THEN [logger |-> NoLogger, sink |-> defaultSink,
          err |-> Wrap("failed to create CloudWatch client", prov.err)]
    ELSE [logger |-> SlogLogger(prov.client), sink |-> prov.client, err |-> NilErr]

\* GetLogger returns r
Return(r) ==
    /\ loggers' = IF r.logger = NoLogger THEN loggers ELSE Append(loggers, r.logger)
    /\ ret' = [logger |-> IF r.logger = NoLogger THEN 0 ELSE Len(loggers) + 1,
               err |-> r.err]
    /\ defaultSink' = r.sink
    /\ pc' = "idle"
    /\ exists' = FALSE
    /\ i' = 0
    /\ lastErr' = NilErr
    /\ logStream' = <<>>

\* the calls that go to the remote service: LoadDefaultConfig is local
RemoteOps == {"DescribeLogGroups", "CreateLogGroup", "CreateLogStream", "PutLogEvents"}

\* GetLogger(env, ..., logGroup, region) up to the return of LoadDefaultConfig
GetLogger(e, g, cfgOk) ==
    /\ pc = "idle"
    /\ run < MaxRuns
    /\ run' = run + 1
    /\ env' = e
    /\ logGroup' = g
    /\ calls' = IF UsesCloud(e)
                THEN <<Call("LoadDefaultConfig", "", <<>>, "provision",
                            IF cfgOk THEN "ok" ELSE "config")>>
                ELSE <<>>
    /\ lastCall' = NoCall
    /\ nlog' = 0
    /\ IF UsesCloud(e)
       THEN IF cfgOk
            THEN /\ pc' = "describe"
                 /\ ret' = NoRet
                 /\ UNCHANGED <<loggers, defaultSink, exists, i, lastErr, logStream>>
            ELSE Return(GetLoggerProd(ConfigFailure(ServiceErr("config", 0))))
       ELSE Return([logger |-> StdLogger, sink |-> defaultSink, err |-> NilErr])
    /\ UNCHANGED <<groups, streams, exited, clock, uuids>>
    /\ UNCHANGED <<emitVars, provVars, threadVars>>

\* NewCloudwatchClient: DescribeLogGroups and the search of its output
DescribeLogGroups(outcome) ==
    /\ pc = "describe"
    /\ LET c == Call("DescribeLogGroups", logGroup, <<>>, "provision", outcome)
           found == IF outcome = "ok"
                    THEN ExistsIn(DescribeOutput(logGroup), logGroup)
                    ELSE FALSE
       IN /\ exists' = found
          /\ calls' = IF outcome = "ok" THEN Append(calls, c)
                      ELSE LogPrintf(Append(calls, c))
          /\ pc' = IF found THEN "genStream" ELSE "createGroup"
    /\ UNCHANGED <<groups, streams, run, nlog, env, logGroup, i, lastErr,
                   logStream, ret, loggers, defaultSink, lastCall, exited,
                   clock, uuids>>
    /\ UNCHANGED <<emitVars, provVars, threadVars>>

\* NewCloudwatchClient: the branch that creates the log group
CreateLogGroup(outcome) ==
    /\ pc = "createGroup"
    /\ outcome \in CreateGroupOutcomes(logGroup)
    /\ LET c == Call("CreateLogGroup", logGroup, <<>>, "provision", outcome)
           cs == Append(LogPrintf(calls), c)
       IN IF outcome = "ok"
          THEN /\ groups' = groups \cup {logGroup}
               /\ calls' = LogPrintf(cs)
               /\ pc' = "genStream"
               /\ UNCHANGED <<ret, loggers, defaultSink, exists, i, lastErr, logStream>>
          ELSE /\ calls' = cs
               /\ Return(GetLoggerProd(GroupFailure(ServiceErr(outcome, 0))))
               /\ UNCHANGED groups
    /\ UNCHANGED <<streams, run, nlog, env, logGroup, lastCall, exited, clock,
                   uuids>>
    /\ UNCHANGED <<emitVars, provVars, threadVars>>

\* NewCloudwatchClient: the stream name, from the clock and a fresh UUID
GenStreamName(t) ==
    /\ pc = "genStream"
    /\ clock' = t
    /\ uuids' = uuids + 1
    /\ logStream' = StreamName(t, uuids + 1)
    /\ calls' = LogPrintf(IF exists THEN LogPrintf(calls) ELSE calls)
    /\ pc' = "createStream"
    /\ UNCHANGED <<groups, streams, run, nlog, env, logGroup, exists, i,
                   lastErr, ret, loggers, defaultSink, lastCall, exited>>
    /\ UNCHANGED <<emitVars, provVars, threadVars>>

\* NewCloudwatchClient: one iteration of the retry loop
CreateLogStream(outcome) ==
    /\ pc = "createStream"
    /\ i < maxRetries
    /\ LET d == Dest(logGroup, logStream)
           ok == outcome = "ok"
           c == Call("CreateLogStream", logGroup, logStream, "provision", outcome)
       IN /\ outcome \in CreateStreamOutcomes(d)
          /\ streams' = IF ok THEN streams \cup {d} ELSE streams
          /\ calls' = LogPrintf(Append(calls, c))
          /\ lastErr' = LastErrAfter(lastErr, ok, ServiceErr(outcome, i + 1))
          /\ i' = IF ok THEN i ELSE i + 1
          /\ pc' = AfterAttempt(ok, i + 1)
    /\ UNCHANGED <<groups, run, nlog, env, logGroup, exists, logStream, ret,
                   loggers, defaultSink, lastCall, exited, clock, uuids>>
    /\ UNCHANGED <<emitVars, provVars, threadVars>>

\* NewCloudwatchClient after the loop, and GetLogger's handling of its result
FinishProvisioning ==
    /\ pc = "afterLoop"
    /\ Return(GetLoggerProd(StreamResult(lastErr, logGroup, logStream)))
    /\ UNCHANGED <<groups, streams, calls, run, nlog, env, logGroup, lastCall,
                   exited, clock, uuids>>
    /\ UNCHANGED <<emitVars, provVars, threadVars>>

\* ------------------------------------------------------- Logger methods
Levels == {"Debug", "Info", "Warn", "Error"}

\* EmitLog without the test of err: it returns nil whatever PutLogEvents did
EmitLogErrDropped(outcome) == NilErr

\* (*CloudwatchClient).EmitLog: the error it returns to the handler
EmitLogErr(outcome) ==
    IF outcome = "ok" THEN NilErr
    ELSE Wrap("failed to send log to CloudWatch", ServiceErr(outcome, 0))

\* slog.Debug/Info/Warn/Error go to slog's default handler, which is
\* Enabled at every level and hands the record to its client's EmitLog
SlogTarget(l) == defaultSink

\* what a Logger method hands back to its caller: the methods of the Logger
\* interface have no result, slog drops the handler's error
MethodResult(l, e) == "none"

\* the record of a call of a method of logger k
MethodCall(k, level, hasErr, outcome) ==
    LET l == loggers[k]
    IN IF l.kind = "slog"
       THEN [logger |-> k, level |-> level, hasErr |-> hasErr,
             returned |-> MethodResult(l, EmitLogErr(outcome)),
             printed |-> FALSE, emitted |-> TRUE, target |-> SlogTarget(l), ok |-> outcome = "ok",
             handlerErr |-> EmitLogErr(outcome)]
       ELSE [logger |-> k, level |-> level, hasErr |-> hasErr,
             returned |-> "none", printed |-> TRUE, emitted |-> FALSE,
             target |-> NoDest,
             ok |-> TRUE, handlerErr |-> NilErr]

\* the remote calls of a call of a Logger method
CallsAfter(c) ==
    IF c.emitted
    THEN <<Call("PutLogEvents", c.target.group, c.target.stream, c.level,
                IF c.ok THEN "ok" ELSE c.handlerErr.kind)>>
    ELSE <<>>

\* the outcomes of the emission of a method of logger k
MethodOutcomes(k) ==
    IF loggers[k].kind = "slog" THEN PutOutcomes(SlogTarget(loggers[k])) ELSE {"ok"}

\* Debug, Info, Warn and Error of SlogLogger and of StdLogger
Log(k, level, hasErr, outcome) ==
    /\ pc = "idle"
    /\ nlog < MaxLogCalls
    /\ k \in 1..Len(loggers)
    /\ hasErr => level = "Error"
    /\ outcome \in MethodOutcomes(k)
    /\ nlog' = nlog + 1
    /\ lastCall' = MethodCall(k, level, hasErr, outcome)
    /\ calls' = CallsAfter(lastCall')
    /\ logGroup' = ""
    /\ ret' = NoRet
    /\ UNCHANGED <<groups, streams, pc, run, env, exists, i, lastErr, logStream,
                   loggers, defaultSink, exited, clock, uuids>>
    /\ UNCHANGED <<emitVars, provVars, threadVars>>

\* Fatal of SlogLogger and of StdLogger, up to the return of the log call
Fatal(k, hasErr, outcome) ==
    /\ pc = "idle"
    /\ k \in 1..Len(loggers)
    /\ outcome \in MethodOutcomes(k)
    /\ lastCall' = MethodCall(k, "Fatal", hasErr, outcome)
    /\ calls' = CallsAfter(lastCall')
    /\ pc' = "exit"
    /\ logGroup' = ""
    /\ ret' = NoRet
    /\ UNCHANGED <<groups, streams, run, nlog, env, exists, i, lastErr, logStream,
                   loggers, defaultSink, exited, clock, uuids>>
    /\ UNCHANGED <<emitVars, provVars, threadVars>>

\* Fatal with os.Exit(0)
FatalStatusZero(l) == 0

\* the status Fatal passes to os.Exit
FatalStatus(l) == 1

\* Fatal: os.Exit(1)
Exit ==
    /\ pc = "exit"
    /\ exited' = FatalStatus(loggers[lastCall.logger])
    /\ pc' = "exited"
    /\ UNCHANGED <<groups, streams, calls, run, nlog, env, logGroup, exists, i,
                   lastErr, logStream, ret, loggers, defaultSink, lastCall,
                   clock, uuids>>
    /\ UNCHANGED <<emitVars, provVars, threadVars>>

\* ---------------------------------------------------------- specification
Next ==
    \/ \E e \in Envs, g \in GroupNames, cfgOk \in BOOLEAN : GetLogger(e, g, cfgOk)
    \/ \E o \in DescribeOutcomes : DescribeLogGroups(o)
    \/ \E o \in {"ok", "exists"} \cup FailKinds : CreateLogGroup(o)
    \/ \E t \in clock..MaxClock : GenStreamName(t)
    \/ \E o \in {"ok", "exists", "notfound"} \cup FailKinds : CreateLogStream(o)
    \/ FinishProvisioning
    \/ \E k \in 1..MaxRuns, level \in Levels, hasErr \in BOOLEAN,
          o \in {"ok", "notfound"} \cup FailKinds : Log(k, level, hasErr, o)
    \/ \E k \in 1..MaxRuns, hasErr \in BOOLEAN,
          o \in {"ok", "notfound"} \cup FailKinds : Fatal(k, hasErr, o)
    \/ Exit

Spec == Init /\ [][Next]_vars


\* ------------------------------------------------- what the claims read
\* the calls of one operation among the calls of the current GetLogger
CallsOf(op) == SelectSeq(calls, LAMBDA c : c.op = op)

StreamCalls == CallsOf("CreateLogStream")
GroupCalls == CallsOf("CreateLogGroup")
DescribeCalls == CallsOf("DescribeLogGroups")

\* the calls that reach the remote service
RemoteCalls == SelectSeq(calls, LAMBDA c : c.op \in RemoteOps)

\* the last GetLogger call has returned and no Logger method was called since
Returned == pc = "idle" /\ run > 0 /\ lastCall = NoCall

\* GetLogger returned a logger and no error
Succeeded == ret.err = NilErr /\ ret.logger # 0

\* GetLogger returned an error and no logger
Failed == ret.err # NilErr /\ ret.logger = 0

\* the state of the facade that the GetLogger call in progress or just
\* returned builds (read while that call is the last operation)
FacadeState ==
    IF pc \in {"describe", "createGroup", "genStream", "createStream", "afterLoop"}
    THEN "Provisioning"
    ELSE IF run = 0 \/ ret.logger = 0 THEN "Unconfigured"
    ELSE IF loggers[ret.logger].kind = "slog" THEN "Bound"
    ELSE "ConsoleBound"

\* ------------------------------------------------------------------ C1
\* C1: when CreateLogStream fails on the first two attempts and succeeds on
\* the third, GetLogger returns a client and no error after exactly 3
\* CreateLogStream calls; provisioning succeeds whenever one of the attempts
\* succeeds. The code returns the error of an earlier attempt instead.
C1_RetryThenSuccess ==
    (/\ Returned
     /\ UsesCloud(env)
     /\ \E n \in 1..Len(StreamCalls) : StreamCalls[n].result = "ok")
    => /\ Succeeded
       /\ (/\ Len(StreamCalls) >= 3
           /\ StreamCalls[1].result \in TransientKinds
           /\ StreamCalls[2].result \in TransientKinds) => Len(StreamCalls) = 3

\* ------------------------------------------------------------------ C2
\* C2: CreateLogStream is called at most 3 times in a provisioning run, no
\* call follows a successful one, and when all 3 attempts fail GetLogger
\* returns no logger and an error that wraps the failure of the third attempt.
C2_RetryBudget ==
    /\ Len(StreamCalls) <= maxRetries
    /\ \A n \in 1..Len(StreamCalls) :
          StreamCalls[n].result = "ok" => n = Len(StreamCalls)
    /\ (/\ Returned
        /\ Len(StreamCalls) = maxRetries
        /\ \A n \in 1..maxRetries : StreamCalls[n].result # "ok")
       => /\ Failed
          /\ Len(ret.err.msg) = 2
          /\ Unwrap(Unwrap(ret.err)) = ServiceErr(StreamCalls[maxRetries].result, maxRetries)

\* all three attempts failed, the last one differently from the first two
C2_Witness ==
    /\ Returned
    /\ Len(StreamCalls) = 3
    /\ StreamCalls[1].result = "transient"
    /\ StreamCalls[2].result = "transient"
    /\ StreamCalls[3].result = "permanent"
    /\ ret.err.kind = "permanent"

\* ------------------------------------------------------------------ C3
\* C3: while the named log group exists in the remote service, a provisioning
\* run makes no CreateLogGroup call, whatever the group lookup returned.
C3_NoCreateWhenGroupExists ==
    [][(logGroup \in groups) => (Len(GroupCalls))' <= Len(GroupCalls)]_vars

\* ------------------------------------------------------------------ C4
\* C4: when DescribeLogGroups fails, provisioning aborts with that error and
\* calls neither CreateLogGroup nor CreateLogStream.
C4_LookupFailureAborts ==
    (\E n \in 1..Len(DescribeCalls) : DescribeCalls[n].result \in FailKinds)
    => /\ Len(GroupCalls) = 0
       /\ Len(StreamCalls) = 0
       /\ Returned => (Failed /\ ret.err.kind = DescribeCalls[1].result)

\* ------------------------------------------------------------------ C5
\* C5: a permanent failure of CreateLogStream is returned at once: no
\* CreateLogStream call follows it.
C5_PermanentNotRetried ==
    \A n \in 1..Len(StreamCalls) :
        StreamCalls[n].result \in PermanentKinds => n = Len(StreamCalls)


\* ------------------------------------------------------------------ C6
\* C6: GetLogger with the dev environment makes no call to the AWS SDK and
\* returns a StdLogger and no error, and no method of a StdLogger makes a
\* remote call.
C6_DevIsLocal ==
    /\ (Returned /\ env = DEV)
       => /\ calls = <<>>
          /\ Succeeded
          /\ loggers[ret.logger] = StdLogger
    /\ (lastCall.logger # 0 /\ loggers[lastCall.logger].kind = "std")
       => /\ calls = <<>>
          /\ ~lastCall.emitted
          /\ lastCall.printed

\* a StdLogger obtained in dev logs while a CloudWatch handler is installed
C6_Witness ==
    /\ env = DEV
    /\ pc = "idle"
    /\ defaultSink # NoDest
    /\ lastCall.logger = Len(loggers)
    /\ lastCall.logger # 0
    /\ loggers[lastCall.logger] = StdLogger
    /\ lastCall.level = "Info"

\* ------------------------------------------------------------------ C7
\* provisioning failed: the config did not load, CreateLogGroup failed, or
\* every one of the maxRetries CreateLogStream attempts failed
ProvisioningFailed ==
    \/ \E n \in 1..Len(calls) :
          calls[n].op = "LoadDefaultConfig" /\ calls[n].result # "ok"
    \/ \E n \in 1..Len(GroupCalls) : GroupCalls[n].result # "ok"
    \/ /\ Len(StreamCalls) = maxRetries
       /\ \A n \in 1..maxRetries : StreamCalls[n].result # "ok"

\* C7: when provisioning fails at any step, GetLogger in prod returns an error
\* and no logger: the facade is not Bound, and the stream of the failed run is
\* not the destination of the default handler.
C7_FailureReturnsNoLogger ==
    (Returned /\ UsesCloud(env) /\ ProvisioningFailed)
    => /\ Failed
       /\ FacadeState = "Unconfigured"
       /\ \A n \in 1..Len(StreamCalls) : defaultSink.stream # StreamCalls[n].stream

\* a second prod GetLogger fails on CreateLogGroup after a first one succeeded
C7_Witness ==
    /\ Returned
    /\ UsesCloud(env)
    /\ Len(GroupCalls) = 1
    /\ GroupCalls[1].result = "permanent"
    /\ Len(loggers) = 1
    /\ loggers[1].kind = "slog"
    /\ Failed

\* ------------------------------------------------------------------ C8
\* C8: Fatal of either logger ends the process with exit status 1, after the
\* log was attempted (PutLogEvents in prod, the console line otherwise),
\* whether the emission succeeded and whether err is nil; nothing else runs
\* after Fatal's log call.
C8_FatalExits ==
    /\ exited \in {-1, 1}
    /\ (exited = -1) <=> (pc # "exited")
    /\ (lastCall.level = "Fatal") <=> (pc \in {"exit", "exited"})
    /\ (pc \in {"exit", "exited"})
       => LET l == loggers[lastCall.logger]
          IN /\ l.kind = "slog" =>
                  /\ lastCall.emitted
                  /\ Len(calls) = 1
                  /\ calls[1].op = "PutLogEvents"
                  /\ calls[1].by = "Fatal"
             /\ l.kind = "std" => lastCall.printed

\* the process exited after a Fatal with a nil err whose PutLogEvents failed
C8_Witness ==
    /\ pc = "exited"
    /\ exited = 1
    /\ loggers[lastCall.logger].kind = "slog"
    /\ ~lastCall.hasErr
    /\ ~lastCall.ok
    /\ calls[1].result = "transient"

\* ------------------------------------------------------------------ C9
\* C9 as stated: when PutLogEvents fails during Debug, Info, Warn or Error of a
\* production logger, the failure is returned to the caller of that method and
\* the process keeps running.
C9_FailureReturnedToCaller ==
    (lastCall.emitted /\ ~lastCall.ok /\ lastCall.level \in Levels)
    => /\ lastCall.returned = "error"
       /\ exited = -1

\* C9 amended: when PutLogEvents fails during Debug, Info, Warn or Error of a
\* production logger, EmitLog returns the wrapped failure to the handler, the
\* method itself returns nothing to its caller, and the process keeps running;
\* the process ends only after a Fatal call.
C9_FailureStaysInHandler ==
    /\ (lastCall.emitted /\ ~lastCall.ok /\ lastCall.level \in Levels)
       => /\ lastCall.handlerErr # NilErr
          /\ lastCall.handlerErr.msg = <<"failed to send log to CloudWatch">>
          /\ lastCall.handlerErr.kind = calls[1].result
          /\ lastCall.returned = "none"
          /\ exited = -1
          /\ pc = "idle"
    /\ (pc \in {"exit", "exited"}) => lastCall.level = "Fatal"

\* an Error call with an err whose PutLogEvents failed
C9_Witness ==
    /\ lastCall.emitted
    /\ ~lastCall.ok
    /\ lastCall.level = "Error"
    /\ lastCall.hasErr
    /\ pc = "idle"
    /\ calls[1].result = "permanent"

\* ----------------------------------------------------------------- C10
\* C10: every record logged through a production Logger is emitted to the
\* group and stream provisioned by the GetLogger call that returned it.
C10_OwnDestination ==
    (lastCall.logger # 0 /\ loggers[lastCall.logger].kind = "slog")
    => /\ lastCall.emitted
       /\ lastCall.target = loggers[lastCall.logger].handler

\* ----------------------------------------------------------------- C11
\* the PutLogEvents calls of the operation in progress or last done
PutCalls == CallsOf("PutLogEvents")

\* C11: every PutLogEvents call, of a Logger method or of log.Printf, targets
\* a group that exists and a stream that a CreateLogStream call of this
\* process created, the destination of a production logger that a GetLogger
\* call returned; nothing is emitted while no handler is installed.
C11_EmitAfterProvisioning ==
    /\ \A n \in 1..Len(PutCalls) :
          /\ PutCalls[n].group \in groups
          /\ Dest(PutCalls[n].group, PutCalls[n].stream) \in streams
          /\ \E k \in 1..Len(loggers) :
                loggers[k] = SlogLogger(Dest(PutCalls[n].group, PutCalls[n].stream))
    /\ defaultSink = NoDest => Len(PutCalls) = 0
    /\ \A k \in 1..Len(loggers) :
          loggers[k].kind = "slog" => loggers[k].handler \in streams

\* a second provisioning run, whose own stream does not exist yet, logs
\* through the handler that the first one installed
C11_Witness ==
    /\ pc = "createStream"
    /\ Len(PutCalls) >= 2
    /\ PutCalls[1].by = "log.Printf"
    /\ Dest(logGroup, logStream) \notin streams
    /\ Len(loggers) = 1

\* ----------------------------------------------------------------- C14
\* C14: each Debug, Info, Warn or Error call on a production logger makes
\* exactly one PutLogEvents call, with one event, addressed to the group and
\* stream that logger is bound to, and makes no other call, whether the
\* PutLogEvents succeeded or failed.
C14_OnePutToBoundStream ==
    (/\ lastCall.logger # 0
     /\ lastCall.level \in Levels
     /\ loggers[lastCall.logger].kind = "slog")
    => /\ Len(calls) = 1
       /\ calls[1].op = "PutLogEvents"
       /\ calls[1].events = 1
       /\ calls[1].by = lastCall.level
       /\ Dest(calls[1].group, calls[1].stream) = loggers[lastCall.logger].handler

\* ----------------------------------------------------------------- C15
\* the positions in calls of the calls of one operation
Positions(op) == {n \in 1..Len(calls) : calls[n].op = op}

\* C15: in a provisioning run the group lookup is the first remote call and
\* is made once; CreateLogGroup is called at most once, after the lookup, and
\* not when the lookup returned the exact group name; every CreateLogStream
\* call comes after the lookup found the group or after a successful
\* CreateLogGroup, on a group that exists; after a failed CreateLogGroup there
\* is no CreateLogStream call and GetLogger returns that failure.
C15_ProvisioningOrder ==
    /\ (Len(GroupCalls) + Len(StreamCalls) + Len(DescribeCalls) > 0)
       => /\ RemoteCalls[1].op = "DescribeLogGroups"
          /\ Len(DescribeCalls) = 1
    /\ Len(GroupCalls) <= 1
    /\ \A g \in Positions("CreateLogGroup"), s \in Positions("CreateLogStream") : g < s
    /\ (Len(GroupCalls) = 1 /\ DescribeCalls[1].result = "ok")
       => \/ GroupCalls[1].result = "ok"
          \/ GroupCalls[1].group \notin groups
    /\ Len(StreamCalls) > 0
       => /\ \A n \in 1..Len(StreamCalls) : StreamCalls[n].group \in groups
          /\ IF Len(GroupCalls) = 0
             THEN DescribeCalls[1].result = "ok"
             ELSE GroupCalls[1].result = "ok"
    /\ (Len(GroupCalls) = 1 /\ GroupCalls[1].result # "ok")
       => /\ Len(StreamCalls) = 0
          /\ pc = "idle"
          /\ Returned => /\ Failed
                         /\ ret.err.kind = GroupCalls[1].result
                         /\ ret.err.msg[2] = "failed to create log group"

\* group "app" is created although "app-logs" matches the pattern, and the
\* stream is created after it
C15_Witness ==
    /\ Returned
    /\ Succeeded
    /\ "app-logs" \in groups
    /\ Len(DescribeCalls) = 1
    /\ DescribeCalls[1].result = "ok"
    /\ Len(GroupCalls) = 1
    /\ GroupCalls[1].group = "app"
    /\ GroupCalls[1].result = "ok"
    /\ Len(StreamCalls) = 1
    /\ StreamCalls[1].result = "ok"

\* ----------------------------------------------------------------- C19
\* C19: the slog default changes only in the step in which a GetLogger call
\* in prod returns a logger and no error, and becomes the handler of that
\* logger, whose stream was created; GetLogger with another environment and
\* a prod GetLogger that returns an error leave it as it was.
C19_DefaultSinkFrame ==
    [][(defaultSink' # defaultSink)
       => /\ pc = "afterLoop"
          /\ pc' = "idle"
          /\ UsesCloud(env')
          /\ ret'.err = NilErr
          /\ ret'.logger = Len(loggers) + 1
          /\ loggers' = Append(loggers, SlogLogger(defaultSink'))
          /\ defaultSink' \in streams]_vars

\* GetLogger("staging") returned a StdLogger while the handler of an earlier
\* production logger stays the default
C19_Witness ==
    /\ Returned
    /\ env = "staging"
    /\ Succeeded
    /\ Len(loggers) = 2
    /\ loggers[1].kind = "slog"
    /\ loggers[2] = StdLogger
    /\ defaultSink = loggers[1].handler

\* ================================================================ EmitLog
\* logEntry[a.Key] = ...
SetKey(entry, k, val) == [entry EXCEPT ![k] = val]

\* the value stored for an attribute: the text of an error, as a string, and
\* any other value as it is
Stored(val) == IF val.t = "error" THEN String(val.v) ELSE val

\* r.Attrs(func(a slog.Attr) bool {...}): the attributes in order
RECURSIVE AddAttrs(_, _)
AddAttrs(entry, attrs) ==
    IF attrs = <<>> THEN entry
    ELSE AddAttrs(SetKey(entry, Head(attrs).key, Stored(Head(attrs).val)),
                  Tail(attrs))

\* the map logEntry that EmitLog builds from the record
LogEntryOf(r) == AddAttrs(SetKey(EmptyEntry, "message", String(r.message)), r.attrs)

\* the values encoding/json returns an UnsupportedTypeError for
Unsupported(val) == val.t = "chan"

\* the JSON value encoding/json writes for a value; an error value has no
\* exported fields and is written as an empty object
JsonOf(val) ==
    CASE val.t = "number" -> [j |-> "number", v |-> val.v]
      [] val.t = "string" -> [j |-> "string", v |-> val.v]
      [] val.t = "nil"    -> [j |-> "null", v |-> ""]
      [] val.t = "error"  -> [j |-> "object", v |-> "{}"]
      [] OTHER            -> NoJson

\* string(logEntryJson) with logEntryJson, _ := json.Marshal(logEntry): the
\* object with one member per key, or, when Marshal returns an error, the
\* empty string of its nil byte slice
Marshal(entry) ==
    IF \E k \in KeysOf(entry) : Unsupported(entry[k])
    THEN EmptyMessage
    ELSE [kind |-> "object",
          fields |-> [k \in Keys |-> IF k \in KeysOf(entry)
                                     THEN JsonOf(entry[k]) ELSE NoJson]]

\* (*CloudwatchClient).EmitLog(r) on the client cw, from its entry to its
\* return
EmitLog(cw, r, outcome) ==
    /\ sent = NoInput
    /\ record' = r
    /\ logEntry' = LogEntryOf(r)
    /\ sent' = [dest |-> cw, message |-> Marshal(LogEntryOf(r)), events |-> 1,
                result |-> outcome]
    /\ emitErr' = EmitLogErr(outcome)
    /\ UNCHANGED <<facadeVars, provVars, threadVars>>

\* the client of a production logger: GetLogger(PROD, "app") has returned
\* it, the group having existed and every call having succeeded
Provisioned == Dest("app", StreamName(0, 1))

InitProvisioned ==
    /\ groups = {"app"}
    /\ streams = {Provisioned}
    /\ calls = <<Call("LoadDefaultConfig", "", <<>>, "provision", "ok"),
                 Call("DescribeLogGroups", "app", <<>>, "provision", "ok"),
                 Call("CreateLogStream", "app", StreamName(0, 1), "provision", "ok")>>
    /\ pc = "idle"
    /\ run = 1
    /\ nlog = 0
    /\ env = PROD
    /\ logGroup = "app"
    /\ exists = FALSE
    /\ i = 0
    /\ lastErr = NilErr
    /\ logStream = <<>>
    /\ ret = [logger |-> 1, err |-> NilErr]
    /\ loggers = <<SlogLogger(Provisioned)>>
    /\ defaultSink = Provisioned
    /\ lastCall = NoCall
    /\ exited = -1
    /\ clock = 0
    /\ uuids = 1
    /\ logEntry = NoEntry
    /\ sent = NoInput
    /\ emitErr = NilErr
    /\ procs = [p \in Procs |-> NoRun]
    /\ names = {}
    /\ thr = [t \in Threads |-> NoThread]
    /\ issued = <<>>
    /\ store = <<>>

\* the handler calls EmitLog of the client with a record
InitEmit ==
    /\ InitProvisioned
    /\ record \in Records

NextEmit ==
    \E outcome \in PutOutcomes(defaultSink) : EmitLog(defaultSink, record, outcome)

SpecEmit == InitEmit /\ [][NextEmit]_vars

\* ------------------------------------------------- claims about EmitLog
\* EmitLog has run on the record
Emitted == sent # NoInput

\* the position of the last attribute of the record keyed k
LastOf(k) ==
    CHOOSE n \in 1..Len(record.attrs) :
        /\ record.attrs[n].key = k
        /\ \A m \in (n + 1)..Len(record.attrs) : record.attrs[m].key # k

AttrKeys == {record.attrs[n].key : n \in 1..Len(record.attrs)}

\* C16: for every record, one with a value that cannot be JSON-encoded
\* included, EmitLog performs its PutLogEvents call and the payload it sends
\* is a JSON object that has the message key.
C16_PayloadIsObjectWithMessage ==
    Emitted =>
        /\ sent.events = 1
        /\ sent.dest = defaultSink
        /\ sent.message.kind = "object"
        /\ sent.message.fields["message"] # NoJson

\* C16, the half the code keeps: PutLogEvents is called whatever the record
C16_PutAlwaysPerformed ==
    Emitted => sent.events = 1 /\ sent.dest = defaultSink

\* the JSON value the claims give an attribute value: the text of an error
\* as a string, any other value as itself
Rendered(val) == IF val.t = "error" THEN [j |-> "string", v |-> val.v] ELSE JsonOf(val)

\* C13: every attribute that holds an error is in the payload under its key
\* as the string of the error's text, never as an object, and every other
\* attribute under its key as its own JSON value (of two attributes with one
\* key, the later).
C13_ErrorsAsText ==
    Emitted =>
        \A k \in AttrKeys :
            LET val == record.attrs[LastOf(k)].val
            IN  Unsupported(val) \/ sent.message.fields[k] = Rendered(val)

\* C13 for the records json.Marshal encodes
C13_ErrorsAsTextWhenEncodable ==
    (Emitted /\ \A n \in 1..Len(record.attrs) : ~Unsupported(record.attrs[n].val))
        => /\ C13_ErrorsAsText
           /\ sent.message.kind = "object"
           /\ \A k \in Keys : sent.message.fields[k].j # "object"

\* C13, its example: hello with code=42 and cause=<error boom> is sent as
\* {message: hello, code: 42, cause: boom}
C13_Example ==
    (Emitted /\ record = [message |-> "hello",
                          attrs |-> <<Attr("code", Number("42")),
                                      Attr("cause", Error("boom"))>>])
        => sent.message = [kind |-> "object",
                           fields |-> [k \in Keys |->
                              CASE k = "message" -> [j |-> "string", v |-> "hello"]
                                [] k = "code"    -> [j |-> "number", v |-> "42"]
                                [] k = "cause"   -> [j |-> "string", v |-> "boom"]]]

\* C17: in the payload the message key holds the record's message unless an
\* attribute is keyed message, and then that attribute's value; a key two
\* attributes share holds the value of the later one; the payload has no
\* more keys than 1 + the number of distinct attribute keys.
C17_LastWriteWins ==
    Emitted =>
        /\ sent.message.fields["message"] =
              IF "message" \in AttrKeys
              THEN Rendered(record.attrs[LastOf("message")].val)
              ELSE [j |-> "string", v |-> record.message]
        /\ \A k \in AttrKeys :
              sent.message.fields[k] = Rendered(record.attrs[LastOf(k)].val)
        /\ Cardinality({k \in Keys : sent.message.fields[k] # NoJson})
              <= 1 + Cardinality(AttrKeys)

\* C17 for the map EmitLog builds, before json.Marshal
C17_EntryLastWriteWins ==
    Emitted =>
        /\ logEntry["message"] =
              IF "message" \in AttrKeys
              THEN Stored(record.attrs[LastOf("message")].val)
              ELSE String(record.message)
        /\ \A k \in AttrKeys : logEntry[k] = Stored(record.attrs[LastOf(k)].val)
        /\ KeysOf(logEntry) = {"message"} \cup AttrKeys
        /\ Cardinality(KeysOf(logEntry)) <= 1 + Cardinality(AttrKeys)

\* C17 for the records json.Marshal encodes
C17_LastWriteWinsWhenEncodable ==
    (Emitted /\ \A n \in 1..Len(record.attrs) : ~Unsupported(record.attrs[n].val))
        => C17_LastWriteWins

\* ==================================== provisioning in several processes
\* Each process of Procs runs the part of NewCloudwatchClient that names and
\* creates the stream, against the group "app" of one remote service. The
\* processes share the wall clock. uuid.New() draws 122 random bits; the
\* model takes two draws to differ, in one process or in two, and gives the
\* n-th UUID drawn anywhere the number n.

\* logStream := fmt.Sprintf(...): process p reads the clock and draws a UUID
ProcGenStreamName(p, t) ==
    /\ procs[p].pc = "idle"
    /\ procs[p].runs < MaxRuns
    /\ clock' = t
    /\ uuids' = uuids + 1
    /\ procs' = [procs EXCEPT ![p] = [pc |-> "createStream",
                                      runs |-> procs[p].runs + 1,
                                      i |-> 0,
                                      logStream |-> StreamName(t, uuids + 1)]]
    /\ names' = names \cup {[proc |-> p, run |-> procs[p].runs + 1,
                             name |-> StreamName(t, uuids + 1)]}
    /\ UNCHANGED <<groups, streams, calls, pc, run, nlog, env, logGroup, exists,
                   i, lastErr, logStream, ret, loggers, defaultSink, lastCall,
                   exited>>
    /\ UNCHANGED <<emitVars, threadVars>>

\* one attempt of the retry loop of process p
ProcCreateLogStream(p, outcome) ==
    /\ procs[p].pc = "createStream"
    /\ procs[p].i < maxRetries
    /\ LET d == Dest("app", procs[p].logStream)
           ok == outcome = "ok"
       IN /\ outcome \in CreateStreamOutcomes(d)
          /\ streams' = IF ok THEN streams \cup {d} ELSE streams
          /\ procs' = [procs EXCEPT ![p].i = IF ok THEN @ ELSE @ + 1,
                                    ![p].pc = AfterAttempt(ok, procs[p].i + 1)]
    /\ UNCHANGED <<groups, calls, pc, run, nlog, env, logGroup, exists, i,
                   lastErr, logStream, ret, loggers, defaultSink, lastCall,
                   exited, clock, uuids>>
    /\ UNCHANGED <<names, emitVars, threadVars>>

\* NewCloudwatchClient returns in process p
ProcReturn(p) ==
    /\ procs[p].pc = "afterLoop"
    /\ procs' = [procs EXCEPT ![p].pc = "idle", ![p].i = 0, ![p].logStream = <<>>]
    /\ UNCHANGED <<facadeVars, names, emitVars, threadVars>>

InitProcs ==
    /\ groups = {"app"}
    /\ streams = {}
    /\ calls = <<>>
    /\ pc = "idle"
    /\ run = 0
    /\ nlog = 0
    /\ env = ""
    /\ logGroup = ""
    /\ exists = FALSE
    /\ i = 0
    /\ lastErr = NilErr
    /\ logStream = <<>>
    /\ ret = NoRet
    /\ loggers = <<>>
    /\ defaultSink = NoDest
    /\ lastCall = NoCall
    /\ exited = -1
    /\ clock = 0
    /\ uuids = 0
    /\ record = NoRecord
    /\ logEntry = NoEntry
    /\ sent = NoInput
    /\ emitErr = NilErr
    /\ procs = [p \in Procs |-> NoRun]
    /\ names = {}
    /\ thr = [t \in Threads |-> NoThread]
    /\ issued = <<>>
    /\ store = <<>>

NextProcs ==
    \E p \in Procs :
        \/ \E t \in clock..MaxClock : ProcGenStreamName(p, t)
        \/ \E outcome \in {"ok", "exists"} \cup FailKinds : ProcCreateLogStream(p, outcome)
        \/ ProcReturn(p)

SpecProcs == InitProcs /\ [][NextProcs]_vars

\* the UUID component of a stream name, 0 when it has none
IdOf(name) == IF Len(name) >= 3 THEN name[3] ELSE 0

\* C12: any two provisioning runs, of one process or of two, with the same
\* timestamp or not, generate distinct stream names, and the names differ in
\* their UUID component.
C12_DistinctStreamNames ==
    \A a, b \in names :
        a # b => a.name # b.name /\ IdOf(a.name) # IdOf(b.name)

\* C12: two processes are in their retry loops at once with names of one
\* timestamp, and one of them has named a stream with that timestamp in an
\* earlier run too
C12_Witness ==
    /\ procs[1].pc = "createStream" /\ procs[2].pc = "createStream"
    /\ procs[1].logStream[2] = procs[2].logStream[2]
    /\ procs[1].logStream # procs[2].logStream
    /\ \E a \in names : /\ a.proc = 1 /\ a.run < procs[1].runs
                        /\ a.name[2] = procs[1].logStream[2]
                        /\ Dest("app", a.name) \in streams

\* ============================================ EmitLog in several threads
\* The threads of Threads log through the one production logger of InitEmit;
\* its handler hands each record to EmitLog of the same client. A thread
\* builds its map, encodes it and calls PutLogEvents; the service handles the
\* requests in flight in any order.

\* the records the threads log
ThreadRecords ==
    {[message |-> "hello", attrs |-> <<Attr("code", val)>>] :
        val \in {Number("42"), Error("boom"), Chan}}

\* one map shared by the threads: the map of a thread that has built its map
\* and not yet encoded it
EntryOfShared(t) == thr[CHOOSE u \in Threads : thr[u].pc = "built"].entry

\* the map an EmitLog call encodes is the local logEntry of its own thread
EntryOf(t) == thr[t].entry

\* EmitLog of thread t builds its map from the record r
ThreadBuild(t, r) ==
    /\ thr[t].pc = "idle"
    /\ thr' = [thr EXCEPT ![t].pc = "built",
                          ![t].record = r,
                          ![t].entry = LogEntryOf(r)]
    /\ UNCHANGED <<facadeVars, emitVars, provVars, issued, store>>

\* EmitLog of thread t encodes its map and calls PutLogEvents
ThreadPut(t) ==
    /\ thr[t].pc = "built"
    /\ issued' = Append(issued, [thread |-> t, record |-> thr[t].record])
    /\ thr' = [thr EXCEPT ![t].pc = "inflight",
                          ![t].call = Len(issued) + 1,
                          ![t].input = [dest |-> SlogTarget(loggers[1]),
                                        message |-> Marshal(EntryOf(t)),
                                        events |-> 1,
                                        result |-> ""]]
    /\ UNCHANGED <<facadeVars, emitVars, provVars, store>>

\* the service handles the request of thread t and answers it
RemotePut(t, outcome) ==
    /\ thr[t].pc = "inflight"
    /\ outcome \in PutOutcomes(thr[t].input.dest)
    /\ store' = IF outcome = "ok"
                THEN Append(store, [call |-> thr[t].call,
                                    dest |-> thr[t].input.dest,
                                    message |-> thr[t].input.message])
                ELSE store
    /\ thr' = [thr EXCEPT ![t].pc = "answered", ![t].input.result = outcome]
    /\ UNCHANGED <<facadeVars, emitVars, provVars, issued>>

\* EmitLog of thread t returns
ThreadReturn(t) ==
    /\ thr[t].pc = "answered"
    /\ thr' = [thr EXCEPT ![t].pc = "returned",
                          ![t].err = EmitLogErr(thr[t].input.result)]
    /\ UNCHANGED <<facadeVars, emitVars, provVars, issued, store>>

InitThreads ==
    /\ InitProvisioned
    /\ record = NoRecord

NextThreads ==
    \E t \in Threads :
        \/ \E r \in ThreadRecords : ThreadBuild(t, r)
        \/ ThreadPut(t)
        \/ \E outcome \in {"ok", "notfound"} \cup FailKinds : RemotePut(t, outcome)
        \/ ThreadReturn(t)

SpecThreads == InitThreads /\ [][NextThreads]_vars

\* the threads whose EmitLog has called PutLogEvents
Calling == {t \in Threads : thr[t].pc \in {"inflight", "answered", "returned"}}

\* C18: under every interleaving of the threads' log calls each PutLogEvents
\* call carries one event with the payload of the record of its own call,
\* each event in the remote store is the payload of the call that sent it
\* and is stored once, and the group and stream of the logger's client are
\* the ones provisioning gave it, for every call.
C18_OwnRecordFixedDestination ==
    /\ \A t \in Calling :
          /\ issued[thr[t].call] = [thread |-> t, record |-> thr[t].record]
          /\ thr[t].input.message = Marshal(LogEntryOf(thr[t].record))
          /\ thr[t].input.events = 1
          /\ thr[t].input.dest = Provisioned
    /\ \A n \in 1..Len(store) :
          /\ store[n].message = Marshal(LogEntryOf(issued[store[n].call].record))
          /\ store[n].dest = Provisioned
          /\ \A m \in 1..Len(store) : m # n => store[m].call # store[n].call
    /\ loggers[1] = SlogLogger(Provisioned)
    /\ defaultSink = Provisioned

\* C18: three calls with three records have returned, and their events are
\* in the remote store in an order that is not the order the calls were
\* issued in
C18_Witness ==
    /\ \A t \in Threads : thr[t].pc = "returned"
    /\ Len(store) = 3
    /\ store[1].call = 3 /\ store[2].call = 1 /\ store[3].call = 2
    /\ \A m, n \in 1..3 : m # n => issued[m].record # issued[n].record
    /\ \A m, n \in 1..3 : m # n => store[m].message # store[n].message

====
